---- MODULE Spec2Model ----
(***************************************************************************)
(* Model of app.py, the Flask webhook of the "Memory Chat" Telegram bot:   *)
(* the session store SESS, the dispatcher webhook() with its branches in   *)
(* source order, the reply composer ai_reply() and the send capability     *)
(* tg_send().                                                              *)
(*                                                                         *)
(* A Python str is modelled as a tuple of one-character strings, so that   *)
(* startswith, strip, lower, upper, split and the substring test are       *)
(* computed character by character.  Outbound message bodies are TLA+      *)
(* strings obtained by concatenation (Join).                               *)
(***************************************************************************)
EXTENDS Integers, Sequences, FiniteSets, TLC

-----------------------------------------------------------------------------
(* Python string operations                                                *)

UPPER == <<"A","B","C","D","E","F","G","H","I","J","K","L","M","N","O","P","Q","R","S","T","U","V","W","X","Y","Z">>

LOWER == <<"a","b","c","d","e","f","g","h","i","j","k","l","m","n","o","p","q","r","s","t","u","v","w","x","y","z">>

Whitespace == {" ", "\n", "\t"}

\* str.lower(), character by character
LowerChar(c) ==
    IF \E i \in 1..Len(UPPER) : UPPER[i] = c
    THEN LOWER[CHOOSE i \in 1..Len(UPPER) : UPPER[i] = c]
    ELSE c

Lower(s) == [i \in 1..Len(s) |-> LowerChar(s[i])]

\* str.upper(), character by character
UpperChar(c) ==
    IF \E i \in 1..Len(LOWER) : LOWER[i] = c
    THEN UPPER[CHOOSE i \in 1..Len(LOWER) : LOWER[i] = c]
    ELSE c

Upper(s) == [i \in 1..Len(s) |-> UpperChar(s[i])]

\* str.startswith(p)
StartsWith(s, p) ==
    /\ Len(p) <= Len(s)
    /\ \A i \in 1..Len(p) : s[i] = p[i]

\* the `in` operator on strings: k occurs in s as a substring
Contains(s, k) ==
    \E i \in 0..(Len(s) - Len(k)) : \A j \in 1..Len(k) : s[i + j] = k[j]

\* str.strip(): drop leading and trailing whitespace
Strip(s) ==
    LET keep == {i \in 1..Len(s) : s[i] \notin Whitespace}
    IN  IF keep = {} THEN <<>>
        ELSE LET lo == CHOOSE i \in keep : \A j \in keep : i <= j
                 hi == CHOOSE i \in keep : \A j \in keep : j <= i
             IN  SubSeq(s, lo, hi)

\* s.split(":", 1)[1]: everything after the first colon
AfterFirstColon(s) ==
    LET colons == {i \in 1..Len(s) : s[i] = ":"}
        first  == CHOOSE i \in colons : \A j \in colons : i <= j
    IN  SubSeq(s, first + 1, Len(s))

RECURSIVE Join(_)
\* the characters of s as one string
Join(s) ==
    IF Len(s) = 0 THEN ""
    ELSE IF Len(s) = 1 THEN s[1]
    ELSE LET h == Len(s) \div 2
         IN  Join(SubSeq(s, 1, h)) \o Join(SubSeq(s, h + 1, Len(s)))

Digits == <<"0","1","2","3","4","5","6","7","8","9">>

RECURSIVE IntToStr(_)
\* the decimal rendering an f-string gives a non-negative int
IntToStr(n) ==
    IF n < 10 THEN Digits[n + 1]
    ELSE IntToStr(n \div 10) \o Digits[(n % 10) + 1]

-----------------------------------------------------------------------------
(* Bounds of the model                                                     *)

\* longest memories list a session may reach
MaxMems == 2

\* conversation identifiers (msg["chat"]["id"])
ChatIds == {101, 202}

\* the conversations of the single-conversation specification
OneChat == {101}

-----------------------------------------------------------------------------
(* Module-level constants and message literals of app.py.  The dashes,     *)
(* bullets and typographic apostrophes of the literals are written in      *)
(* ASCII; the messages are compared as wholes only.                        *)

INTRO == "I am an AI memory-bot built from memories you supplied. I am not the real person."

SAFE_MSG == "I'm really sorry you're feeling this way - I'm not a human counselor, but I want to help keep you safe. If you are in immediate danger, please call 999 (UK) now. You can also contact Samaritans at 116 123 or visit https://www.samaritans.org - they're 24/7. If you're outside the UK, tell me your country and I'll try to share a local helpline. Are you alone right now?"

START_MSG == "Welcome to Memory Chat.\n\nThis creates a one-time, private AI conversation based on brief memories you share.\n* To set a nickname they used for you, send:\n  Nickname: <what they called you>\n* To add a memory line (you can add multiple), send:\n  Memory: <one sentence memory>\n\nWhen you've added at least 1 memory, type: READY\nAt any time type END to finish (we delete everything)."

END_MSG == "Session ended. All data deleted."

NICKNAME_MSG == "Got the nickname. You can now add memories with 'Memory: ...' or type READY."

MEMORY_EMPTY_MSG == "Please add some text after 'Memory:'."

READY_NEED_MSG == "Please add at least one memory using 'Memory: ...' first."

READY_OK_MSG == "Okay - we can chat now. Type END when you're finished."

APOLOGY == "(Sorry, I had an issue generating a reply.)"

\* f"Added memory ({len(state['mems'])}). Add more or type READY."
MemoryAck(n) == "Added memory (" \o IntToStr(n) \o "). Add more or type READY."

danger_keywords == <<
    <<"s","u","i","c","i","d","e">>, <<"k","i","l","l"," ","m","y","s","e","l","f">>, <<"e","n","d"," ","i","t">>, <<"c","a","n","'","t"," ","g","o"," ","o","n">>, <<"c","a","n","t"," ","g","o"," ","o","n">>,
    <<"h","u","r","t"," ","m","y","s","e","l","f">>, <<"e","n","d"," ","m","y"," ","l","i","f","e">>, <<"t","a","k","e"," ","m","y"," ","l","i","f","e">>, <<"s","e","l","f"," ","h","a","r","m">>, <<"s","e","l","f","-","h","a","r","m">> >>

\* any(k in lower for k in danger_keywords)
IsDanger(text) ==
    LET lower == Lower(text)
    IN  \E i \in 1..Len(danger_keywords) : Contains(lower, danger_keywords[i])

-----------------------------------------------------------------------------
(* The session store                                                       *)

\* {"nick": "", "mems": []}
DefaultSession == [nick |-> <<>>, mems |-> <<>>]

\* SESS.setdefault(chat_id, {"nick": "", "mems": []})
setdefault(S, chat_id) ==
    IF chat_id \in DOMAIN S THEN S ELSE S @@ (chat_id :> DefaultSession)

\* pop that leaves the entry in place
pop_kept(S, chat_id) == S

\* SESS.pop(chat_id, None)
pop(S, chat_id) == [k \in DOMAIN S \ {chat_id} |-> S[k]]

\* /start that keeps a session it finds (setdefault instead of assignment)
reset_kept(S, chat_id) ==
    IF chat_id \in DOMAIN S THEN S ELSE S @@ (chat_id :> DefaultSession)

\* SESS[chat_id] = {"nick": "", "mems": []}
reset(S, chat_id) ==
    [k \in DOMAIN S \cup {chat_id} |-> IF k = chat_id THEN DefaultSession ELSE S[k]]

\* insert(0, mem) instead of append(mem)
mems_prepend(mems, mem) == <<mem>> \o mems

\* state["mems"].append(mem)
mems_append(mems, mem) == Append(mems, mem)

-----------------------------------------------------------------------------
(* The order of the checks of webhook()                                    *)

\* the checks with END and READY compared without .strip()
webhook_branch_unstripped(text) ==
    IF StartsWith(text, <<"/","s","t","a","r","t">>) THEN "start"
    ELSE IF Upper(text) = <<"E","N","D">> THEN "end"
    ELSE IF IsDanger(text) THEN "crisis"
    ELSE IF StartsWith(Lower(text), <<"n","i","c","k","n","a","m","e",":">>) THEN "nickname"
    ELSE IF StartsWith(Lower(text), <<"m","e","m","o","r","y",":">>) THEN "memory"
    ELSE IF Upper(text) = <<"R","E","A","D","Y">> THEN "ready"
    ELSE "chat"

webhook_branch(text) ==
    IF StartsWith(text, <<"/","s","t","a","r","t">>) THEN "start"
    ELSE IF Upper(Strip(text)) = <<"E","N","D">> THEN "end"
    ELSE IF IsDanger(text) THEN "crisis"
    ELSE IF StartsWith(Lower(text), <<"n","i","c","k","n","a","m","e",":">>) THEN "nickname"
    ELSE IF StartsWith(Lower(text), <<"m","e","m","o","r","y",":">>) THEN "memory"
    ELSE IF Upper(Strip(text)) = <<"R","E","A","D","Y">> THEN "ready"
    ELSE "chat"

-----------------------------------------------------------------------------
(* The reply composer                                                      *)

RECURSIVE JoinLines(_)
\* "\n- ".join(memories) preceded by "\n- "
JoinLines(memories) ==
    IF memories = <<>> THEN ""
    ELSE "\n- " \o Join(Head(memories)) \o JoinLines(Tail(memories))

\* the system message ai_reply builds for the completion call
system_msg(memories, nickname) ==
    LET mem_join == IF memories # <<>> THEN JoinLines(memories)
                    ELSE "\n- (no memories provided yet)"
        nick     == IF nickname # <<>> THEN Join(nickname) ELSE "(none)"
    IN  INTRO \o "\nSpeak warmly in 2-6 sentences.\n"
              \o "Use the following memories naturally if relevant:" \o mem_join \o "\n"
              \o "Nickname they used for the user: " \o nick \o "\n"
              \o "Never claim to be the real person. "
              \o "If asked for facts you don't have, ask the user to share a memory."

\* what the completion call can do: raise, or return a message content
CompletionContents == {
    <<"I"," ","r","e","m","e","m","b","e","r"," ","t","h","a","t"," ","d","a","y",".">>,
    <<" ","i"," ","a","m"," ","a","n"," ","A","I"," ","M","e","m","o","r","y","-","B","o","t",","," ","a","n","d"," ","I"," ","r","e","m","e","m","b","e","r",".","\n">>,
    <<"I"," ","a","m"," ","a","n"," ","A","I">>,
    <<" "," ">> }

CompletionOutcomes ==
    {[ok |-> FALSE, content |-> <<>>]} \cup
    {[ok |-> TRUE, content |-> t] : t \in CompletionContents}

NoCompletion == [ok |-> FALSE, content |-> <<>>]

\* an echo of the stripped text
echo_stripped(user_text) == "You said: " \o Join(Strip(user_text))

\* the echo of ai_reply when OPENAI_KEY is not set
echo_reply(user_text) == "You said: " \o Join(user_text)

\* ai_reply whose except arm returns the apology alone
ai_reply_bare_apology(user_text, memories, nickname, key, outcome) ==
    IF ~key THEN "You said: " \o Join(user_text)
    ELSE IF outcome.ok
         THEN LET reply == Strip(outcome.content)
              IN  IF ~StartsWith(Lower(reply), <<"i"," ","a","m"," ","a","n"," ","a","i"," ","m","e","m","o","r","y","-","b","o","t">>)
                  THEN INTRO \o "\n" \o Join(reply)
                  ELSE Join(reply)
         ELSE APOLOGY

\* ai_reply that tests reply.startswith without reply.lower()
ai_reply_case_sensitive(user_text, memories, nickname, key, outcome) ==
    IF ~key THEN "You said: " \o Join(user_text)
    ELSE IF outcome.ok
         THEN LET reply == Strip(outcome.content)
              IN  IF ~StartsWith(reply, <<"i"," ","a","m"," ","a","n"," ","a","i"," ","m","e","m","o","r","y","-","b","o","t">>)
                  THEN INTRO \o "\n" \o Join(reply)
                  ELSE Join(reply)
         ELSE INTRO \o "\n" \o APOLOGY

\* the value ai_reply returns; outcome is what urlopen/json.loads produced
ai_reply(user_text, memories, nickname, key, outcome) ==
    IF ~key THEN echo_reply(user_text)
    ELSE IF outcome.ok
         THEN LET reply == Strip(outcome.content)
              IN  IF ~StartsWith(Lower(reply), <<"i"," ","a","m"," ","a","n"," ","a","i"," ","m","e","m","o","r","y","-","b","o","t">>)
                  THEN INTRO \o "\n" \o Join(reply)
                  ELSE Join(reply)
         ELSE INTRO \o "\n" \o APOLOGY

-----------------------------------------------------------------------------
(* Inbound updates                                                         *)

\* texts of the single-conversation specification
Texts == {
    <<>>, <<" ">>, <<"h","i">>,
    <<"/","s","t","a","r","t">>, <<"/","s","t","a","r","t"," ","n","o","w">>, <<"/","S","T","A","R","T">>, <<" ","/","s","t","a","r","t">>, <<"/","s","t","a","r","t"," ","s","u","i","c","i","d","e">>,
    <<"E","N","D">>, <<" ","e","n","d","\n">>, <<"E","N","D"," ","n","o","w">>, <<"e","n","d"," ","i","t">>,
    <<"N","i","c","k","n","a","m","e",":"," ","x">>, <<"n","i","c","k","n","a","m","e",":","x">>, <<"N","I","C","K","N","A","M","E",":">>, <<"n","i","c","k","n","a","m","e",":"," ","y",":","z"," ">>,
    <<" ","n","i","c","k","n","a","m","e",":"," ","x">>, <<"N","i","c","k","n","a","m","e",":"," ","S","u","i","c","i","d","e">>,
    <<"M","e","m","o","r","y",":"," ","x">>, <<"m","e","m","o","r","y",":","x"," ">>, <<"M","E","M","O","R","Y",":","y",":","z">>, <<"M","e","m","o","r","y",":">>, <<"m","e","m","o","r","y",":"," ","\t">>,
    <<" ","m","e","m","o","r","y",":"," ","x">>, <<"m","e","m","o","r","y"," ","x">>, <<"M","e","m","o","r","y",":"," ","S","E","L","F","-","H","A","R","M">>,
    <<"R","E","A","D","Y">>, <<" ","r","e","a","d","y"," ">>, <<"R","e","a","d","y","!">>,
    <<"I"," ","c","a","n","'","t"," ","g","o"," ","o","n">>, <<"K","i","l","l"," ","M","y","s","e","l","f">> }

\* texts of the two-conversation specification: one or two per branch
ChatsTexts == {
    <<>>, <<"h","i">>, <<"/","s","t","a","r","t">>, <<"e","n","d">>, <<"N","i","c","k","n","a","m","e",":"," ","x">>,
    <<"M","e","m","o","r","y",":"," ","x">>, <<"M","e","m","o","r","y",":"," ">>, <<"r","e","a","d","y">>, <<"K","i","l","l"," ","M","y","s","e","l","f">> }

\* the JSON body of a webhook POST, reduced to the fields webhook() reads:
\* has_msg  - update has a "message" or an "edited_message"
\* has_text - that message has a "text" key
UpdatesOf(chats, texts) ==
    {[has_msg |-> FALSE, chat_id |-> c, has_text |-> FALSE, text |-> <<>>] : c \in {101}}
    \cup {[has_msg |-> TRUE, chat_id |-> c, has_text |-> FALSE, text |-> <<>>] : c \in chats}
    \cup {[has_msg |-> TRUE, chat_id |-> c, has_text |-> TRUE, text |-> t] : c \in chats, t \in texts}

Updates == UpdatesOf(OneChat, Texts)

ChatsUpdates == UpdatesOf(ChatIds, ChatsTexts)

\* msg.get("text", "") or ""
text_of(u) == IF u.has_text THEN u.text ELSE <<>>

\* webhook_branch, tabulated over the texts of the model
BranchTable == [t \in Texts \cup ChatsTexts |-> webhook_branch(t)]

-----------------------------------------------------------------------------
(* State                                                                   *)

VARIABLES
    SESS,            \* the session store: chat_id -> [nick, mems]
    TELEGRAM_TOKEN,  \* TRUE iff TELEGRAM_BOT_TOKEN is set
    OPENAI_KEY,      \* TRUE iff OPENAI_API_KEY is set
    update,          \* the update of the last request
    branch,          \* where the last request returned
    before,          \* SESS when the last request arrived
    sent,            \* the tg_send calls of the last request, in order
    ai_calls,        \* the ai_reply calls of the last request (arguments)
    completions,     \* the completion requests of the last request
    outcomes,        \* what those completion requests produced
    ret,             \* what the last request returned to the caller
    started,         \* chats with a /start and no END since
    intake,          \* payloads of the memory messages since that /start
    ended,           \* per chat: "no", or what the END handled last deleted
    ended_before,    \* ended when the last request arrived
    refs,            \* concurrent handling: chat_id -> the dict object SESS holds
    heap,            \* concurrent handling: dict object -> [nick, mems]
    pc,              \* per request thread: where it stands in webhook()
    req,             \* per request thread: its update
    state_ref,       \* per request thread: its local `state` (0 before setdefault)
    args,            \* per request thread: the memories and nickname it read
    pos,             \* per request thread: where its append landed (0: none)
    replies,         \* per request thread: its tg_send calls, in order
    overlapped       \* a thread took a step while the other was after setdefault

vars == <<SESS, TELEGRAM_TOKEN, OPENAI_KEY, update, branch, before, sent,
          ai_calls, completions, outcomes, ret, started, intake, ended,
          ended_before, refs, heap, pc, req, state_ref, args, pos, replies, overlapped>>

\* the variables of concurrent handling
conc_vars == <<refs, heap, pc, req, state_ref, args, pos, replies, overlapped>>

\* the variables that describe the last request handled on its own
last_vars == <<update, branch, sent, ai_calls, completions, outcomes, ret,
               started, intake, ended, ended_before>>

\* the request threads
Threads == {1, 2}

NoUpdate == [has_msg |-> FALSE, chat_id |-> 101, has_text |-> FALSE, text |-> <<>>]

\* tg_send(chat_id, text): one call of the send capability
tg_send(chat_id, text) == [chat_id |-> chat_id, text |-> text]

Init ==
    /\ SESS = <<>>
    /\ TELEGRAM_TOKEN \in BOOLEAN
    /\ OPENAI_KEY \in BOOLEAN
    /\ update = NoUpdate
    /\ branch = "init"
    /\ before = <<>>
    /\ sent = <<>>
    /\ ai_calls = <<>>
    /\ completions = <<>>
    /\ outcomes = <<>>
    /\ ret = "none"
    /\ started = {}
    /\ intake = [c \in ChatIds |-> <<>>]
    /\ ended = [c \in ChatIds |-> "no"]
    /\ ended_before = [c \in ChatIds |-> "no"]
    /\ refs = <<>>
    /\ heap = <<>>
    /\ pc = [t \in Threads |-> "idle"]
    /\ req = [t \in Threads |-> NoUpdate]
    /\ state_ref = [t \in Threads |-> 0]
    /\ args = [t \in Threads |-> DefaultSession]
    /\ pos = [t \in Threads |-> 0]
    /\ replies = [t \in Threads |-> <<>>]
    /\ overlapped = FALSE

\* what every request does on arrival and on return
Request(u, b) ==
    /\ update' = u
    /\ branch' = b
    /\ before' = SESS
    /\ ended_before' = ended
    /\ ret' = "ok"
    /\ UNCHANGED <<TELEGRAM_TOKEN, OPENAI_KEY>>
    /\ UNCHANGED conc_vars

\* if not msg: return "ok"
NoMessage(u) ==
    /\ ~u.has_msg
    /\ Request(u, "no_message")
    /\ sent' = <<>> /\ ai_calls' = <<>> /\ completions' = <<>> /\ outcomes' = <<>>
    /\ UNCHANGED <<SESS, started, intake, ended>>

\* the token check placed below the /start branch
NoToken_below_start(u) ==
    /\ u.has_msg
    /\ ~TELEGRAM_TOKEN
    /\ update' = u /\ branch' = "no_token" /\ before' = SESS
    /\ ended_before' = ended /\ ret' = "ok"
    /\ UNCHANGED <<TELEGRAM_TOKEN, OPENAI_KEY>>
    /\ UNCHANGED conc_vars
    /\ IF StartsWith(text_of(u), <<"/","s","t","a","r","t">>)
       THEN /\ SESS' = [k \in DOMAIN SESS \cup {u.chat_id} |->
                          IF k = u.chat_id THEN DefaultSession ELSE SESS[k]]
            /\ sent' = <<[chat_id |-> u.chat_id, text |-> START_MSG]>>
       ELSE /\ sent' = <<>>
            /\ UNCHANGED SESS
    /\ ai_calls' = <<>> /\ completions' = <<>> /\ outcomes' = <<>>
    /\ UNCHANGED <<started, intake, ended>>

\* if not TELEGRAM_TOKEN: return "ok"
NoToken(u) ==
    /\ u.has_msg
    /\ ~TELEGRAM_TOKEN
    /\ Request(u, "no_token")
    /\ sent' = <<>> /\ ai_calls' = <<>> /\ completions' = <<>> /\ outcomes' = <<>>
    /\ UNCHANGED <<SESS, started, intake, ended>>

\* the guard of every branch below the token check
Reaches(u, b) ==
    /\ u.has_msg
    /\ TELEGRAM_TOKEN
    /\ BranchTable[text_of(u)] = b
    /\ Request(u, b)

\* if text.startswith("/start")
Start(u) ==
    /\ Reaches(u, "start")
    /\ SESS' = reset(SESS, u.chat_id)
    /\ sent' = <<tg_send(u.chat_id, START_MSG)>>
    /\ ai_calls' = <<>> /\ completions' = <<>> /\ outcomes' = <<>>
    /\ started' = started \cup {u.chat_id}
    /\ intake' = [intake EXCEPT ![u.chat_id] = <<>>]
    /\ ended' = [ended EXCEPT ![u.chat_id] = "no"]

\* if text.strip().upper() == "END"
End(u) ==
    /\ Reaches(u, "end")
    /\ SESS' = pop(SESS, u.chat_id)
    /\ sent' = <<tg_send(u.chat_id, END_MSG)>>
    /\ ai_calls' = <<>> /\ completions' = <<>> /\ outcomes' = <<>>
    /\ started' = started \ {u.chat_id}
    /\ intake' = [intake EXCEPT ![u.chat_id] = <<>>]
    /\ ended' = [ended EXCEPT ![u.chat_id] =
                    IF u.chat_id \in DOMAIN SESS /\ SESS[u.chat_id] # DefaultSession
                    THEN "data" ELSE "empty"]

\* if any(k in lower for k in danger_keywords)
Crisis(u) ==
    /\ Reaches(u, "crisis")
    /\ sent' = <<tg_send(u.chat_id, SAFE_MSG)>>
    /\ ai_calls' = <<>> /\ completions' = <<>> /\ outcomes' = <<>>
    /\ ended' = [ended EXCEPT ![u.chat_id] = "no"]
    /\ UNCHANGED <<SESS, started, intake>>

\* the nickname branch that ignores an empty nickname
Nickname_nonempty(u) ==
    /\ Reaches(u, "nickname")
    /\ LET S    == setdefault(SESS, u.chat_id)
           nick == Strip(AfterFirstColon(text_of(u)))
       IN  SESS' = IF nick # <<>> THEN [S EXCEPT ![u.chat_id].nick = nick] ELSE S
    /\ sent' = <<tg_send(u.chat_id, NICKNAME_MSG)>>
    /\ ai_calls' = <<>> /\ completions' = <<>> /\ outcomes' = <<>>
    /\ ended' = [ended EXCEPT ![u.chat_id] = "no"]
    /\ UNCHANGED <<started, intake>>

\* if text.lower().startswith("nickname:")
Nickname(u) ==
    /\ Reaches(u, "nickname")
    /\ LET S == setdefault(SESS, u.chat_id)
       IN  SESS' = [S EXCEPT ![u.chat_id].nick = Strip(AfterFirstColon(text_of(u)))]
    /\ sent' = <<tg_send(u.chat_id, NICKNAME_MSG)>>
    /\ ai_calls' = <<>> /\ completions' = <<>> /\ outcomes' = <<>>
    /\ ended' = [ended EXCEPT ![u.chat_id] = "no"]
    /\ UNCHANGED <<started, intake>>

\* the memory branch that stores the payload without .strip()
Memory_unstripped(u) ==
    /\ Reaches(u, "memory")
    /\ LET S   == setdefault(SESS, u.chat_id)
           raw == AfterFirstColon(text_of(u))
           mem == Strip(raw)
       IN  IF mem # <<>>
           THEN /\ Len(S[u.chat_id].mems) < MaxMems
                /\ SESS' = [S EXCEPT ![u.chat_id].mems = Append(@, raw)]
                /\ sent' = <<tg_send(u.chat_id, MemoryAck(Len(SESS'[u.chat_id].mems)))>>
                /\ intake' = IF u.chat_id \in started
                             THEN [intake EXCEPT ![u.chat_id] = Append(@, mem)]
                             ELSE intake
           ELSE /\ SESS' = S
                /\ sent' = <<tg_send(u.chat_id, MEMORY_EMPTY_MSG)>>
                /\ UNCHANGED intake
    /\ ai_calls' = <<>> /\ completions' = <<>> /\ outcomes' = <<>>
    /\ ended' = [ended EXCEPT ![u.chat_id] = "no"]
    /\ UNCHANGED started

\* the memory branch without the `if mem:` test
Memory_unchecked(u) ==
    /\ Reaches(u, "memory")
    /\ LET S   == setdefault(SESS, u.chat_id)
           mem == Strip(AfterFirstColon(text_of(u)))
       IN  /\ Len(S[u.chat_id].mems) < MaxMems
           /\ SESS' = [S EXCEPT ![u.chat_id].mems = Append(@, mem)]
           /\ sent' = <<tg_send(u.chat_id, MemoryAck(Len(SESS'[u.chat_id].mems)))>>
           /\ intake' = IF u.chat_id \in started /\ mem # <<>>
                        THEN [intake EXCEPT ![u.chat_id] = Append(@, mem)]
                        ELSE intake
    /\ ai_calls' = <<>> /\ completions' = <<>> /\ outcomes' = <<>>
    /\ ended' = [ended EXCEPT ![u.chat_id] = "no"]
    /\ UNCHANGED started

\* if text.lower().startswith("memory:")
Memory(u) ==
    /\ Reaches(u, "memory")
    /\ LET S   == setdefault(SESS, u.chat_id)
           mem == Strip(AfterFirstColon(text_of(u)))
       IN  IF mem # <<>>
           THEN /\ Len(S[u.chat_id].mems) < MaxMems
                /\ SESS' = [S EXCEPT ![u.chat_id].mems = mems_append(@, mem)]
                /\ sent' = <<tg_send(u.chat_id, MemoryAck(Len(SESS'[u.chat_id].mems)))>>
                /\ intake' = IF u.chat_id \in started
                             THEN [intake EXCEPT ![u.chat_id] = Append(@, mem)]
                             ELSE intake
           ELSE /\ SESS' = S
                /\ sent' = <<tg_send(u.chat_id, MEMORY_EMPTY_MSG)>>
                /\ UNCHANGED intake
    /\ ai_calls' = <<>> /\ completions' = <<>> /\ outcomes' = <<>>
    /\ ended' = [ended EXCEPT ![u.chat_id] = "no"]
    /\ UNCHANGED started

\* the READY branch without the `return "ok"` of its first arm
Ready_no_return(u) ==
    /\ Reaches(u, "ready")
    /\ SESS' = setdefault(SESS, u.chat_id)
    /\ sent' = IF SESS'[u.chat_id].mems = <<>>
               THEN <<tg_send(u.chat_id, READY_NEED_MSG), tg_send(u.chat_id, READY_OK_MSG)>>
               ELSE <<tg_send(u.chat_id, READY_OK_MSG)>>
    /\ ai_calls' = <<>> /\ completions' = <<>> /\ outcomes' = <<>>
    /\ ended' = [ended EXCEPT ![u.chat_id] = "no"]
    /\ UNCHANGED <<started, intake>>

\* the READY branch with `if state["mems"]` for `if not state["mems"]`
Ready_inverted(u) ==
    /\ Reaches(u, "ready")
    /\ SESS' = setdefault(SESS, u.chat_id)
    /\ sent' = IF SESS'[u.chat_id].mems # <<>>
               THEN <<tg_send(u.chat_id, READY_NEED_MSG)>>
               ELSE <<tg_send(u.chat_id, READY_OK_MSG)>>
    /\ ai_calls' = <<>> /\ completions' = <<>> /\ outcomes' = <<>>
    /\ ended' = [ended EXCEPT ![u.chat_id] = "no"]
    /\ UNCHANGED <<started, intake>>

\* if text.strip().upper() == "READY"
Ready(u) ==
    /\ Reaches(u, "ready")
    /\ SESS' = setdefault(SESS, u.chat_id)
    /\ sent' = IF SESS'[u.chat_id].mems = <<>>
               THEN <<tg_send(u.chat_id, READY_NEED_MSG)>>
               ELSE <<tg_send(u.chat_id, READY_OK_MSG)>>
    /\ ai_calls' = <<>> /\ completions' = <<>> /\ outcomes' = <<>>
    /\ ended' = [ended EXCEPT ![u.chat_id] = "no"]
    /\ UNCHANGED <<started, intake>>

\* the regular chat turn
ChatTurn(u) ==
    /\ Reaches(u, "chat")
    /\ SESS' = setdefault(SESS, u.chat_id)
    /\ \E outcome \in IF OPENAI_KEY THEN CompletionOutcomes ELSE {NoCompletion} :
          LET state == SESS'[u.chat_id]
              text  == text_of(u)
          IN  /\ ai_calls' = <<[user_text |-> text, memories |-> state.mems,
                                nickname |-> state.nick]>>
              /\ completions' = IF OPENAI_KEY
                                THEN <<[system |-> system_msg(state.mems, state.nick),
                                        user |-> Join(text)]>>
                                ELSE <<>>
              /\ outcomes' = IF OPENAI_KEY THEN <<outcome>> ELSE <<>>
              /\ sent' = <<tg_send(u.chat_id,
                             ai_reply(text, state.mems, state.nick, OPENAI_KEY, outcome))>>
    /\ ended' = [ended EXCEPT ![u.chat_id] = "no"]
    /\ UNCHANGED <<started, intake>>

\* one request, handled from arrival to return
webhook(u) ==
    \/ NoMessage(u)
    \/ NoToken(u)
    \/ Start(u)
    \/ End(u)
    \/ Crisis(u)
    \/ Nickname(u)
    \/ Memory(u)
    \/ Ready(u)
    \/ ChatTurn(u)

Next ==
    \/ \E u \in Updates : NoMessage(u)
    \/ \E u \in Updates : NoToken(u)
    \/ \E u \in Updates : Start(u)
    \/ \E u \in Updates : End(u)
    \/ \E u \in Updates : Crisis(u)
    \/ \E u \in Updates : Nickname(u)
    \/ \E u \in Updates : Memory(u)
    \/ \E u \in Updates : Ready(u)
    \/ \E u \in Updates : ChatTurn(u)

\* requests of one conversation, handled one after another
Spec == Init /\ [][Next]_vars

ChatsNext == \E u \in ChatsUpdates : webhook(u)

\* requests of two conversations, handled one after another
ChatsSpec == Init /\ [][ChatsNext]_vars

-----------------------------------------------------------------------------
(* Two requests handled concurrently.  Each step is one read or write of   *)
(* the session store (a dict or list operation), in the order webhook()    *)
(* performs them; what a thread does between two of them touches nothing   *)
(* shared and is part of the step before.  SESS holds dict objects, and    *)
(* the local `state` of a request is a reference to one: refs and heap     *)
(* keep the identities, SESS keeps the value of the store.                 *)

\* texts of two concurrent requests of one conversation
ConcTexts == {
    <<>>, <<"h","i">>, <<"/","s","t","a","r","t">>, <<"E","N","D">>, <<"N","i","c","k","n","a","m","e",":"," ","x">>, <<"M","e","m","o","r","y",":"," ","x">>,
    <<"M","E","M","O","R","Y",":","y",":","z">>, <<"M","e","m","o","r","y",":">>, <<"R","E","A","D","Y">>, <<"K","i","l","l"," ","M","y","s","e","l","f">> }

\* texts of two concurrent requests of two conversations
ConcChatsTexts == {
    <<"h","i">>, <<"/","s","t","a","r","t">>, <<"e","n","d">>, <<"N","i","c","k","n","a","m","e",":"," ","x">>, <<"M","e","m","o","r","y",":"," ","x">>, <<"r","e","a","d","y">>,
    <<"K","i","l","l"," ","M","y","s","e","l","f">> }

ConcUpdates == UpdatesOf(OneChat, ConcTexts)

ConcChatsUpdates == UpdatesOf(ChatIds, ConcChatsTexts)

\* the effect of webhook(u) on the store when it runs alone
serial(S, u) ==
    IF ~u.has_msg \/ ~TELEGRAM_TOKEN THEN S
    ELSE LET b   == BranchTable[text_of(u)]
             mem == Strip(AfterFirstColon(text_of(u)))
         IN  CASE b = "start"    -> reset(S, u.chat_id)
               [] b = "end"      -> pop(S, u.chat_id)
               [] b = "crisis"   -> S
               [] b = "nickname" -> [setdefault(S, u.chat_id) EXCEPT ![u.chat_id].nick = mem]
               [] b = "memory"   -> IF mem # <<>>
                                    THEN [setdefault(S, u.chat_id) EXCEPT
                                            ![u.chat_id].mems = mems_append(@, mem)]
                                    ELSE setdefault(S, u.chat_id)
               [] OTHER          -> setdefault(S, u.chat_id)

\* one module-level default dict handed to every session
shared_session(h) == 1

\* the dict object a {"nick": "", "mems": []} literal creates: one not in use
new_session(h) ==
    CHOOSE o \in 1..(Cardinality(DOMAIN h) + 1) :
        o \notin DOMAIN h /\ \A p \in 1..(o - 1) : p \in DOMAIN h

\* where a request stands after the message and token checks
Entry(u) ==
    IF ~u.has_msg \/ ~TELEGRAM_TOKEN THEN "done"
    ELSE LET b == BranchTable[text_of(u)]
         IN  IF b \in {"start", "end", "crisis"} THEN b ELSE "intake"

\* the positions of a request that holds a `state` reference
Mid == {"nickname", "memory", "ack", "ready", "chat", "chat_nick"}

\* u appends a memory
Appends(u) ==
    /\ Entry(u) = "intake"
    /\ BranchTable[text_of(u)] = "memory"
    /\ Strip(AfterFirstColon(text_of(u))) # <<>>

\* two requests arrive while no request is being handled
Arrive(u1, u2) ==
    /\ \A t \in Threads : pc[t] = "idle"
    /\ \A c \in ChatIds :
         Len(IF c \in DOMAIN SESS THEN SESS[c].mems ELSE <<>>)
           + Cardinality({i \in {1, 2} : Appends(<<u1, u2>>[i]) /\ <<u1, u2>>[i].chat_id = c})
           <= MaxMems
    /\ req' = <<u1, u2>>
    /\ pc' = [t \in Threads |-> Entry(req'[t])]
    /\ state_ref' = [t \in Threads |-> 0]
    /\ args' = [t \in Threads |-> DefaultSession]
    /\ pos' = [t \in Threads |-> 0]
    /\ replies' = [t \in Threads |-> <<>>]
    /\ overlapped' = FALSE
    /\ before' = SESS
    /\ UNCHANGED <<SESS, refs, heap, TELEGRAM_TOKEN, OPENAI_KEY>>
    /\ UNCHANGED last_vars

\* what every step of thread t leaves alone, and its new position
Frame(t, newpc) ==
    /\ pc' = [pc EXCEPT ![t] = newpc]
    /\ overlapped' = (overlapped \/ \E o \in Threads \ {t} : pc[o] \in Mid)
    /\ UNCHANGED <<req, before, TELEGRAM_TOKEN, OPENAI_KEY>>
    /\ UNCHANGED last_vars

\* the store after a step: dict objects nobody refers to any more are gone
Commit(r, h, st) ==
    LET live == ({r[c] : c \in DOMAIN r} \cup {st[t] : t \in Threads}) \cap DOMAIN h
    IN  /\ refs' = r
        /\ heap' = [o \in live |-> h[o]]
        /\ state_ref' = st
        /\ SESS' = [c \in DOMAIN r |-> h[r[c]]]

\* the local `state` of thread t is dropped on return
Dropped(t) == [state_ref EXCEPT ![t] = 0]

\* SESS[chat_id] = {"nick": "", "mems": []}; tg_send; return
T_Start(t) ==
    /\ pc[t] = "start"
    /\ LET c  == req[t].chat_id
           o  == new_session(heap)
           h1 == IF o \in DOMAIN heap THEN heap ELSE heap @@ (o :> DefaultSession)
           r1 == [k \in DOMAIN refs \cup {c} |-> IF k = c THEN o ELSE refs[k]]
       IN  /\ Commit(r1, h1, state_ref)
           /\ replies' = [replies EXCEPT ![t] = <<tg_send(c, START_MSG)>>]
    /\ Frame(t, "done")
    /\ UNCHANGED <<args, pos>>

\* SESS.pop(chat_id, None); tg_send; return
T_End(t) ==
    /\ pc[t] = "end"
    /\ Commit(pop(refs, req[t].chat_id), heap, state_ref)
    /\ replies' = [replies EXCEPT ![t] = <<tg_send(req[t].chat_id, END_MSG)>>]
    /\ Frame(t, "done")
    /\ UNCHANGED <<args, pos>>

\* tg_send(chat_id, SAFE_MSG); return
T_Crisis(t) ==
    /\ pc[t] = "crisis"
    /\ replies' = [replies EXCEPT ![t] = <<tg_send(req[t].chat_id, SAFE_MSG)>>]
    /\ Frame(t, "done")
    /\ UNCHANGED <<SESS, refs, heap, state_ref, args, pos>>

\* state = SESS.setdefault(chat_id, {"nick": "", "mems": []})
T_Setdefault(t) ==
    /\ pc[t] = "intake"
    /\ LET c  == req[t].chat_id
           o  == IF c \in DOMAIN refs THEN refs[c] ELSE new_session(heap)
           h1 == IF o \in DOMAIN heap THEN heap ELSE heap @@ (o :> DefaultSession)
           r1 == IF c \in DOMAIN refs THEN refs ELSE refs @@ (c :> o)
       IN  Commit(r1, h1, [state_ref EXCEPT ![t] = o])
    /\ Frame(t, BranchTable[text_of(req[t])])
    /\ UNCHANGED <<args, pos, replies>>

\* the nickname step that also stores its `state` back into SESS
T_Nickname_writeback(t) ==
    /\ pc[t] = "nickname"
    /\ LET c  == req[t].chat_id
           o  == state_ref[t]
           h1 == [heap EXCEPT ![o].nick = Strip(AfterFirstColon(text_of(req[t])))]
           r1 == [k \in DOMAIN refs \cup {c} |-> IF k = c THEN o ELSE refs[k]]
       IN  /\ refs' = r1
           /\ heap' = [p \in ({r1[k] : k \in DOMAIN r1}
                               \cup {state_ref[s] : s \in Threads \ {t}}) \cap DOMAIN h1 |-> h1[p]]
           /\ state_ref' = [state_ref EXCEPT ![t] = 0]
           /\ SESS' = [k \in DOMAIN r1 |-> h1[r1[k]]]
           /\ replies' = [replies EXCEPT ![t] = <<[chat_id |-> c, text |-> NICKNAME_MSG]>>]
    /\ pc' = [pc EXCEPT ![t] = "done"]
    /\ overlapped' = (overlapped \/ \E o \in Threads \ {t} : pc[o] \in Mid)
    /\ UNCHANGED <<req, before, TELEGRAM_TOKEN, OPENAI_KEY>>
    /\ UNCHANGED last_vars
    /\ UNCHANGED <<args, pos>>

\* state["nick"] = text.split(":", 1)[1].strip(); tg_send; return
T_Nickname(t) ==
    /\ pc[t] = "nickname"
    /\ LET o  == state_ref[t]
           h1 == [heap EXCEPT ![o].nick = Strip(AfterFirstColon(text_of(req[t])))]
       IN  Commit(refs, h1, Dropped(t))
    /\ replies' = [replies EXCEPT ![t] = <<tg_send(req[t].chat_id, NICKNAME_MSG)>>]
    /\ Frame(t, "done")
    /\ UNCHANGED <<args, pos>>

\* if mem: state["mems"].append(mem) / else: tg_send; return
T_Memory(t) ==
    /\ pc[t] = "memory"
    /\ LET o   == state_ref[t]
           mem == Strip(AfterFirstColon(text_of(req[t])))
       IN  IF mem # <<>>
           THEN LET h1 == [heap EXCEPT ![o].mems = mems_append(@, mem)]
                IN  /\ Commit(refs, h1, state_ref)
                    /\ pos' = [pos EXCEPT ![t] = Len(h1[o].mems)]
                    /\ Frame(t, "ack")
                    /\ UNCHANGED replies
           ELSE /\ Commit(refs, heap, Dropped(t))
                /\ replies' = [replies EXCEPT ![t] =
                                 <<tg_send(req[t].chat_id, MEMORY_EMPTY_MSG)>>]
                /\ Frame(t, "done")
                /\ UNCHANGED pos
    /\ UNCHANGED args

\* the acknowledgment built from the length taken before the append
T_Ack_stale(t) ==
    /\ pc[t] = "ack"
    /\ replies' = [replies EXCEPT ![t] =
                     <<[chat_id |-> req[t].chat_id, text |-> MemoryAck(pos[t] - 1)]>>]
    /\ refs' = refs
    /\ heap' = [p \in ({refs[k] : k \in DOMAIN refs}
                        \cup {state_ref[s] : s \in Threads \ {t}}) \cap DOMAIN heap |-> heap[p]]
    /\ state_ref' = [state_ref EXCEPT ![t] = 0]
    /\ SESS' = SESS
    /\ pc' = [pc EXCEPT ![t] = "done"]
    /\ overlapped' = (overlapped \/ \E o \in Threads \ {t} : pc[o] \in Mid)
    /\ UNCHANGED <<req, before, TELEGRAM_TOKEN, OPENAI_KEY>>
    /\ UNCHANGED last_vars
    /\ UNCHANGED <<args, pos>>

\* tg_send(chat_id, f"Added memory ({len(state['mems'])}). ..."); return
T_Ack(t) ==
    /\ pc[t] = "ack"
    /\ replies' = [replies EXCEPT ![t] =
                     <<tg_send(req[t].chat_id, MemoryAck(Len(heap[state_ref[t]].mems)))>>]
    /\ Commit(refs, heap, Dropped(t))
    /\ Frame(t, "done")
    /\ UNCHANGED <<args, pos>>

\* if not state["mems"]: tg_send / else: tg_send; return
T_Ready(t) ==
    /\ pc[t] = "ready"
    /\ replies' = [replies EXCEPT ![t] =
                     IF heap[state_ref[t]].mems = <<>>
                     THEN <<tg_send(req[t].chat_id, READY_NEED_MSG)>>
                     ELSE <<tg_send(req[t].chat_id, READY_OK_MSG)>>]
    /\ Commit(refs, heap, Dropped(t))
    /\ Frame(t, "done")
    /\ UNCHANGED <<args, pos>>

\* state.get("mems", []), the first argument read for ai_reply
T_ChatMems(t) ==
    /\ pc[t] = "chat"
    /\ args' = [args EXCEPT ![t].mems = heap[state_ref[t]].mems]
    /\ Frame(t, "chat_nick")
    /\ UNCHANGED <<SESS, refs, heap, state_ref, pos, replies>>

\* state.get("nick", ""); reply = ai_reply(...); tg_send; return
T_ChatNick(t) ==
    /\ pc[t] = "chat_nick"
    /\ \E outcome \in IF OPENAI_KEY THEN CompletionOutcomes ELSE {NoCompletion} :
          LET nick == heap[state_ref[t]].nick
          IN  /\ args' = [args EXCEPT ![t].nick = nick]
              /\ replies' = [replies EXCEPT ![t] =
                    <<tg_send(req[t].chat_id,
                              ai_reply(text_of(req[t]), args[t].mems, nick,
                                       OPENAI_KEY, outcome))>>]
    /\ Commit(refs, heap, Dropped(t))
    /\ Frame(t, "done")
    /\ UNCHANGED pos

\* both requests have returned: their frames are gone.  The dict objects
\* left are those SESS holds; they are renamed in the order of their keys
\* (an object's identity is only ever compared, never shown).
Return ==
    /\ \A t \in Threads : pc[t] = "done"
    /\ LET rank(c) == Cardinality({k \in DOMAIN refs : k <= c})
       IN  /\ refs' = [c \in DOMAIN refs |-> rank(c)]
           /\ heap' = [o \in {rank(c) : c \in DOMAIN refs} |->
                          heap[refs[CHOOSE c \in DOMAIN refs : rank(c) = o]]]
    /\ pc' = [t \in Threads |-> "idle"]
    /\ req' = [t \in Threads |-> NoUpdate]
    /\ args' = [t \in Threads |-> DefaultSession]
    /\ pos' = [t \in Threads |-> 0]
    /\ replies' = [t \in Threads |-> <<>>]
    /\ overlapped' = FALSE
    /\ before' = <<>>
    /\ UNCHANGED <<SESS, state_ref, TELEGRAM_TOKEN, OPENAI_KEY>>
    /\ UNCHANGED last_vars

\* one step of one of the two requests
ThreadStep ==
    \/ \E t \in Threads : T_Start(t)
    \/ \E t \in Threads : T_End(t)
    \/ \E t \in Threads : T_Crisis(t)
    \/ \E t \in Threads : T_Setdefault(t)
    \/ \E t \in Threads : T_Nickname(t)
    \/ \E t \in Threads : T_Memory(t)
    \/ \E t \in Threads : T_Ack(t)
    \/ \E t \in Threads : T_Ready(t)
    \/ \E t \in Threads : T_ChatMems(t)
    \/ \E t \in Threads : T_ChatNick(t)

ConcNext ==
    \/ \E u1, u2 \in ConcUpdates : Arrive(u1, u2)
    \/ ThreadStep
    \/ Return

\* pairs of concurrent requests of one conversation
ConcSpec == Init /\ [][ConcNext]_vars

ConcChatsNext ==
    \/ \E u1, u2 \in ConcChatsUpdates : Arrive(u1, u2)
    \/ ThreadStep
    \/ Return

\* pairs of concurrent requests of two conversations
ConcChatsSpec == Init /\ [][ConcChatsNext]_vars

-----------------------------------------------------------------------------
(* Vocabulary of the properties                                            *)

\* the last request carried a message and passed the token check
Handled == branch # "init" /\ update.has_msg /\ TELEGRAM_TOKEN

\* conversation and text of the last request
chat == update.chat_id

text == text_of(update)

\* nickname and memories of conversation c in store S; a conversation
\* without a session reads as the default session
View(S, c) == IF c \in DOMAIN S THEN S[c] ELSE DefaultSession

\* the trimmed substring after the first colon
Payload(t) == Strip(AfterFirstColon(t))

IsStartText(t) == StartsWith(t, <<"/","s","t","a","r","t">>)

IsEndText(t) == Upper(Strip(t)) = <<"E","N","D">>

IsReadyText(t) == Upper(Strip(t)) = <<"R","E","A","D","Y">>

IsNicknameText(t) == StartsWith(Lower(t), <<"n","i","c","k","n","a","m","e",":">>)

IsMemoryText(t) == StartsWith(Lower(t), <<"m","e","m","o","r","y",":">>)

\* a text with no crisis indicator that matches no command rule
IsChatTurnText(t) ==
    /\ ~IsDanger(t)
    /\ ~IsStartText(t) /\ ~IsEndText(t) /\ ~IsReadyText(t)
    /\ ~IsNicknameText(t) /\ ~IsMemoryText(t)

-----------------------------------------------------------------------------
(* Properties                                                              *)

\* C1: for a text containing a crisis indicator, whatever else it carries,
\* every send of the request is the helpline message SAFE_MSG.
C1_CrisisOnlyHelpline ==
    (branch # "init" /\ update.has_msg /\ IsDanger(text))
        => \A i \in 1..Len(sent) : sent[i] = tg_send(chat, SAFE_MSG)

\* C2: handling a text containing a crisis indicator leaves the session
\* store exactly as it was.
C2_CrisisLeavesStore ==
    (branch # "init" /\ update.has_msg /\ IsDanger(text)) => SESS = before

\* C3: a message whose text is absent or empty is a no-op: nothing is sent
\* and the session store is unchanged.
C3_NoTextNoOp ==
    (branch # "init" /\ update.has_msg /\ text = <<>>)
        => (sent = <<>> /\ SESS = before)

\* C4: with the delivery credential configured, a message with non-empty
\* text causes exactly one tg_send call, to that message's conversation.
C4_ExactlyOneSend ==
    (Handled /\ text # <<>>) => (Len(sent) = 1 /\ sent[1].chat_id = chat)

\* a chat turn of conversation 202 whose completion call failed
C4_Witness ==
    /\ Handled /\ branch = "chat" /\ OPENAI_KEY /\ chat = 202 /\ text # <<>>
    /\ sent = <<tg_send(202, INTRO \o "\n" \o APOLOGY)>>

\* C5: after a text starting with /start is handled (delivery credential
\* configured; its absence is the subject of C13) the conversation has a
\* session with empty nickname and no memories.
C5_StartResets ==
    (Handled /\ IsStartText(text))
        => (chat \in DOMAIN SESS /\ SESS[chat] = [nick |-> <<>>, mems |-> <<>>])

\* a /start that found a session with a nickname and memories
C5_Witness ==
    /\ Handled /\ IsStartText(text)
    /\ chat \in DOMAIN before
    /\ before[chat].nick # <<>> /\ before[chat].mems # <<>>

\* C6: after a /start and with no /start or END since, memories is the
\* sequence of the non-empty trimmed payloads of the memory messages handled
\* since, in arrival order, and the acknowledgment of the k-th reports k.  (A
\* text containing a crisis indicator is a crisis message, not a memory one.)
C6_MemoriesInOrder ==
    /\ \A c \in started : c \in DOMAIN SESS /\ SESS[c].mems = intake[c]
    /\ (Handled /\ chat \in started /\ IsMemoryText(text) /\ ~IsDanger(text)
            /\ Payload(text) # <<>>)
         => sent = <<tg_send(chat, "Added memory (" \o IntToStr(Len(intake[chat]))
                                      \o "). Add more or type READY.")>>

\* the second memory message after a /start, with a different payload
C6_Witness ==
    /\ Handled /\ IsMemoryText(text) /\ chat \in started
    /\ intake[chat] = << <<"x">>, <<"y",":","z">> >>
    /\ sent = <<tg_send(chat, "Added memory (2). Add more or type READY.")>>

\* C7: a memory: message whose payload is empty or whitespace-only changes
\* neither memories nor nickname, and its one reply is the instructional
\* message.
C7_EmptyMemoryRejected ==
    (Handled /\ IsMemoryText(text) /\ Payload(text) = <<>>)
        => /\ View(SESS, chat) = View(before, chat)
           /\ sent = <<tg_send(chat, "Please add some text after 'Memory:'.")>>

\* a whitespace-only payload sent to a session that holds memories
C7_Witness ==
    /\ Handled /\ text = <<"m","e","m","o","r","y",":"," ","\t">>
    /\ chat \in DOMAIN before /\ before[chat].mems # <<>>

\* C8: READY with no memory (or no session) is answered with the 'add at
\* least one memory first' message, READY with a memory with the ready
\* confirmation; nickname and memories are as before in both cases.
C8_ReadyAcknowledges ==
    (Handled /\ IsReadyText(text))
        => /\ View(before, chat).mems = <<>>
                => sent = <<tg_send(chat, READY_NEED_MSG)>>
           /\ View(before, chat).mems # <<>>
                => sent = <<tg_send(chat, READY_OK_MSG)>>
           /\ View(SESS, chat) = View(before, chat)

\* a READY confirmed for a session with a nickname and two memories
C8_Witness ==
    /\ Handled /\ IsReadyText(text)
    /\ chat \in DOMAIN before
    /\ before[chat].nick # <<>> /\ Len(before[chat].mems) = 2
    /\ sent = <<tg_send(chat, READY_OK_MSG)>>

\* C9: after END is handled the store has no session for the conversation;
\* the chat turn that follows it for that conversation is composed from an
\* empty nickname and no memories.
C9_EndPurges ==
    /\ (Handled /\ IsEndText(text)) => chat \notin DOMAIN SESS
    /\ (Handled /\ IsChatTurnText(text) /\ ended_before[chat] # "no")
         => /\ ai_calls = <<[user_text |-> text, memories |-> <<>>, nickname |-> <<>>]>>
            /\ completions = IF OPENAI_KEY
                             THEN <<[system |-> system_msg(<<>>, <<>>), user |-> Join(text)]>>
                             ELSE <<>>

\* a chat turn right after an END that deleted a nickname or memories
C9_Witness ==
    /\ Handled /\ IsChatTurnText(text) /\ OPENAI_KEY
    /\ ended_before[chat] = "data"

\* C10: with no completion credential, a chat-turn text T is answered with
\* exactly "You said: " followed by T and no completion call is made.
C10_EchoReply ==
    (Handled /\ ~OPENAI_KEY /\ IsChatTurnText(text))
        => /\ sent = <<tg_send(chat, "You said: " \o Join(text))>>
           /\ completions = <<>>

\* an echo of a text with leading whitespace, for a session holding data
C10_Witness ==
    /\ Handled /\ ~OPENAI_KEY /\ text = <<" ","/","s","t","a","r","t">>
    /\ View(before, chat).nick # <<>> /\ View(before, chat).mems # <<>>

\* the characters of INTRO and of the apology
IntroChars == <<"I"," ","a","m"," ","a","n"," ","A","I"," ","m","e","m","o","r","y","-","b","o","t"," ","b","u","i","l","t"," ","f","r","o","m"," ","m","e","m","o","r","i","e","s"," ","y","o","u"," ","s","u","p","p","l","i","e","d","."," ","I"," ","a","m"," ","n","o","t"," ","t","h","e"," ","r","e","a","l"," ","p","e","r","s","o","n",".">>

ApologyChars == <<"(","S","o","r","r","y",","," ","I"," ","h","a","d"," ","a","n"," ","i","s","s","u","e"," ","g","e","n","e","r","a","t","i","n","g"," ","a"," ","r","e","p","l","y",".",")">>

\* s begins, case-insensitively, with the disclaimer's opening words
BeginsWithDisclaimer(s) == StartsWith(Lower(s), Lower(<<"I"," ","a","m"," ","a","n"," ","A","I"," ","m","e","m","o","r","y","-","b","o","t">>))

\* the last request was a chat turn that called the completion backend
PersonaTurn == Handled /\ branch = "chat" /\ OPENAI_KEY /\ Len(outcomes) = 1

\* C11: with a completion credential, when the completion call fails
\* ai_reply returns INTRO followed by the fixed apology, and that text is
\* the one sent to the conversation.
C11_FailureFallback ==
    (PersonaTurn /\ ~outcomes[1].ok)
        => sent = <<tg_send(chat, INTRO \o "\n" \o "(Sorry, I had an issue generating a reply.)")>>

\* a chat turn, for a session holding data, whose completion call failed
C11_Witness ==
    /\ PersonaTurn /\ ~outcomes[1].ok
    /\ View(SESS, chat).nick # <<>> /\ View(SESS, chat).mems # <<>>

\* C12: with a completion credential every reply begins, case-insensitively,
\* with "I am an AI memory-bot": a successful text that begins with it is
\* returned trimmed and otherwise verbatim, any other successful text has the
\* disclaimer sentence prepended, and the fallback begins with it too.
C12_DisclaimerFirst ==
    PersonaTurn =>
        LET body  == Strip(outcomes[1].content)
            reply == IF ~outcomes[1].ok THEN IntroChars \o <<"\n">> \o ApologyChars
                     ELSE IF BeginsWithDisclaimer(body) THEN body
                     ELSE IntroChars \o <<"\n">> \o body
        IN  /\ Join(IntroChars) = INTRO /\ Join(ApologyChars) = APOLOGY
            /\ sent = <<tg_send(chat, Join(reply))>>
            /\ BeginsWithDisclaimer(reply)

\* a successful text that begins with the words in another case, and with
\* whitespace around it
C12_Witness ==
    /\ PersonaTurn /\ outcomes[1].ok
    /\ outcomes[1].content # Strip(outcomes[1].content)
    /\ BeginsWithDisclaimer(Strip(outcomes[1].content))
    /\ ~StartsWith(Strip(outcomes[1].content), <<"I"," ","a","m"," ","a","n"," ","A","I"," ","m","e","m","o","r","y","-","b","o","t">>)

\* C13: without the delivery credential a request with a message sends
\* nothing, leaves the session store as it was and returns "ok".
C13_NoTokenNoOp ==
    (branch # "init" /\ update.has_msg /\ ~TELEGRAM_TOKEN)
        => (sent = <<>> /\ SESS = before /\ ret = "ok")

\* a /start received without the delivery credential
C13_Witness ==
    /\ branch # "init" /\ update.has_msg /\ ~TELEGRAM_TOKEN
    /\ IsStartText(text)

\* C14: every element of every session's memories is non-empty, not
\* whitespace-only and without leading or trailing whitespace.
C14_MemoriesTrimmed ==
    \A c \in DOMAIN SESS : \A i \in 1..Len(SESS[c].mems) :
        /\ SESS[c].mems[i] # <<>>
        /\ Strip(SESS[c].mems[i]) = SESS[c].mems[i]

\* a memory stored from a text with whitespace on both sides of the payload
C14_Witness ==
    /\ Handled /\ branch = "memory" /\ text = <<"m","e","m","o","r","y",":","x"," ">>
    /\ Len(SESS[chat].mems) = 2

\* C15: a handled message other than /start and END leaves every session's
\* memories as they were or with exactly one element added at the end.
C15_AppendOnly ==
    (Handled /\ ~IsStartText(text) /\ ~IsEndText(text))
        => \A c \in ChatIds :
             LET old == View(before, c).mems
                 new == View(SESS, c).mems
             IN  \/ new = old
                 \/ /\ Len(new) = Len(old) + 1
                    /\ SubSeq(new, 1, Len(old)) = old

\* a second memory added behind a different first one
C15_Witness ==
    /\ Handled /\ branch = "memory"
    /\ Len(View(before, chat).mems) = 1 /\ Len(SESS[chat].mems) = 2
    /\ SESS[chat].mems[1] # SESS[chat].mems[2]

\* C16: a text that matches a command rule never reaches the chat-turn
\* branch: neither ai_reply nor the completion backend is called for it.
C16_CommandsNotChatTurns ==
    (branch # "init" /\ update.has_msg
        /\ (\/ IsStartText(text) \/ IsEndText(text) \/ IsReadyText(text)
            \/ IsNicknameText(text) \/ IsMemoryText(text)))
        => (ai_calls = <<>> /\ completions = <<>> /\ branch # "chat")

\* a READY with whitespace around it, completion credential configured
C16_Witness ==
    /\ Handled /\ OPENAI_KEY /\ IsReadyText(text) /\ text # Strip(text)

\* C17: a nickname: text without crisis indicator sets nickname to the
\* trimmed text after the first colon (overwriting, empty accepted), creates
\* the session if there was none, leaves memories as they were and sends the
\* nickname acknowledgment.
C17_NicknameSet ==
    (Handled /\ IsNicknameText(text) /\ ~IsDanger(text))
        => /\ chat \in DOMAIN SESS
           /\ SESS[chat].nick = Payload(text)
           /\ SESS[chat].mems = View(before, chat).mems
           /\ sent = <<tg_send(chat, "Got the nickname. You can now add memories with 'Memory: ...' or type READY.")>>

\* an empty nickname that overwrites an earlier one in a session with memories
C17_Witness ==
    /\ Handled /\ IsNicknameText(text) /\ Payload(text) = <<>>
    /\ chat \in DOMAIN before
    /\ before[chat].nick # <<>> /\ before[chat].mems # <<>>

\* the acknowledgment text that reports count n
AckText(n) == "Added memory (" \o IntToStr(n) \o "). Add more or type READY."

\* thread t appended a memory and has sent its acknowledgment
Acked(t) == pc[t] = "done" /\ pos[t] > 0

\* both concurrent requests have returned
AllDone == \A t \in Threads : pc[t] = "done"

\* no two conversations hold the same dict object
NoSharedSession == \A c, d \in DOMAIN refs : c # d => refs[c] # refs[d]

\* a step changes the session of conversation d only if it is a step of a
\* request for d
IsolatedStep ==
    \A d \in ChatIds :
        (\/ (d \in DOMAIN SESS) # (d \in DOMAIN SESS')
         \/ (d \in DOMAIN SESS /\ d \in DOMAIN SESS' /\ SESS[d] # SESS'[d]))
        => \E t \in Threads : /\ pc[t] \notin {"idle", "done"}
                              /\ pc'[t] # pc[t]
                              /\ req[t].chat_id = d

\* C18: under every interleaving of two concurrent requests, a request for
\* one conversation never creates, deletes or changes the session of another
\* conversation, and two sessions never share one memories list.
C18_Isolation == []NoSharedSession /\ [][IsolatedStep]_vars

\* two requests of different conversations, interleaved, each of which
\* created its session and appended to it
C18_Witness ==
    /\ AllDone /\ overlapped /\ before = <<>>
    /\ req[1].chat_id # req[2].chat_id
    /\ pos[1] = 1 /\ pos[2] = 1
    /\ DOMAIN SESS = ChatIds
    /\ Len(SESS[101].mems) = 1 /\ Len(SESS[202].mems) = 1

\* C19 as stated: the count an acknowledgment reports is the position of the
\* memory its own message appended, also for two memory messages of one
\* conversation handled concurrently, whose counts therefore differ.
C19_AckIsOwnPosition ==
    /\ \A t \in Threads :
         Acked(t) => replies[t] = <<tg_send(req[t].chat_id, AckText(pos[t]))>>
    /\ (Acked(1) /\ Acked(2) /\ req[1].chat_id = req[2].chat_id)
         => replies[1] # replies[2]

\* C19, amended: the count reported is the length of memories when the
\* acknowledgment is built: the position of the message's own memory, or the
\* position of the memory a concurrent memory message of the same
\* conversation appended behind it.
C19_AckIsLengthAtReply ==
    \A t \in Threads :
        Acked(t) =>
            \E n \in {pos[t]} \cup
                     {pos[o] : o \in {s \in Threads \ {t} :
                                        /\ Appends(req[s])
                                        /\ req[s].chat_id = req[t].chat_id
                                        /\ pos[s] > pos[t]}} :
                replies[t] = <<tg_send(req[t].chat_id, AckText(n))>>

\* two concurrent memory messages acknowledged with the same count
C19_Witness ==
    /\ Acked(1) /\ Acked(2) /\ pos[1] # pos[2]
    /\ replies[1] = replies[2]

\* C20: when two concurrent requests of one conversation have both returned,
\* the session store is the one that handling them one after the other, in
\* one of the two orders, produces.
C20_Serializable ==
    AllDone => SESS \in { serial(serial(before, req[1]), req[2]),
                          serial(serial(before, req[2]), req[1]) }

\* an END and a memory message, interleaved, for a session holding memories:
\* the append happened and the session is gone
C20_Witness ==
    /\ AllDone /\ overlapped
    /\ IsEndText(text_of(req[1])) /\ Appends(req[2])
    /\ 101 \in DOMAIN before /\ before[101].mems # <<>>
    /\ pos[2] = Len(before[101].mems) + 1
    /\ SESS = <<>>

====
